---------------------------- MODULE Spec2Model ----------------------------
(***************************************************************************)
(* A model of the per-guild audio session of discord-youtube-bot-2:        *)
(* YouTubeInterface.runner (the advance loop), its manual controls         *)
(* (emitAudioFinish, setVolume, deleteConnection, the loop flag) and the   *)
(* device notifications that drive it.                                     *)
(***************************************************************************)
EXTENDS Integers, Sequences, FiniteSets, TLC

(***************************************************************************)
(* Bounds of the model.                                                    *)
(***************************************************************************)
\* runner() invocations over the life of one session
MaxCycles == 2
\* items ever appended to the queue
MaxItems == 2
\* guild ids, and fromGuild calls over the life of the process
MaxGuilds == 3
MaxLookups == 4
\* the largest config.playlistImportMaxSize, the largest playlist, and the
\* most items the API puts in one page
MaxCap == 4
MaxSize == 5
PageSize == 2

(***************************************************************************)
(* IEEE-754 binary64 arithmetic, as far as setVolume and the volume getter *)
(* use it: x / 100 and x * 100, both correctly rounded (round to nearest,  *)
(* ties to even).  A positive double has a 53-bit significand man, most    *)
(* significant bit first (man[1] = 1), and an exponent exp: its value is   *)
(* the sum of man[k] * 2^(exp - k + 1).  It is held as [exp, hi, lo], hi   *)
(* the number of the leading 27 bits of man and lo that of the other 26.   *)
(* Zero is [0, 0, 0].                                                      *)
(***************************************************************************)
MantBits == 53
HiBits == 27

Zeros(n) == [k \in 1..n |-> 0]

DZero == [exp |-> 0, hi |-> 0, lo |-> 0]

RECURSIVE Pow2(_)
Pow2(n) == IF n = 0 THEN 1 ELSE 2 * Pow2(n - 1)

\* The bits of the natural number n, least significant first (<<>> for 0).
RECURSIVE NatBits(_)
NatBits(n) == IF n = 0 THEN <<>> ELSE <<n % 2>> \o NatBits(n \div 2)

Reverse(s) == [k \in 1..Len(s) |-> s[Len(s) + 1 - k]]

\* The number of the first k bits of a most-significant-first bit string.
RECURSIVE BitsNat(_, _)
BitsNat(s, k) == IF k = 0 THEN 0 ELSE 2 * BitsNat(s, k - 1) + s[k]

\* n as a most-significant-first bit string of the given width.
NatWord(n, width) == [k \in 1..width |-> (n \div Pow2(width - k)) % 2]

\* A double of exponent e and significand man, and its significand back.
Double(e, man) ==
    [exp |-> e, hi |-> BitsNat(SubSeq(man, 1, HiBits), HiBits),
     lo |-> BitsNat(SubSeq(man, HiBits + 1, MantBits), MantBits - HiBits)]

Significand(x) == NatWord(x.hi, HiBits) \o NatWord(x.lo, MantBits - HiBits)

\* s + 1 on a most-significant-first bit string; the carry out is dropped
\* (all ones becomes all zeros).
RECURSIVE IncBits(_)
IncBits(s) ==
    IF s = <<>> THEN <<>>
    ELSE IF s[Len(s)] = 0 THEN SubSeq(s, 1, Len(s) - 1) \o <<1>>
    ELSE IncBits(SubSeq(s, 1, Len(s) - 1)) \o <<0>>

\* Round to nearest, ties to even: man is the 53 leading bits, guard the
\* next bit, sticky whether any lower bit is set.
RoundEven(e, man, guard, sticky) ==
    IF guard = 1 /\ (sticky \/ man[MantBits] = 1)
    THEN IF \A k \in 1..MantBits : man[k] = 1
         THEN Double(e + 1, <<1>> \o Zeros(MantBits - 1))
         ELSE Double(e, IncBits(man))
    ELSE Double(e, man)

\* The double equal to the integer n, 0 <= n < 2^31.
FromInt(n) ==
    IF n = 0 THEN DZero
    ELSE LET b == Reverse(NatBits(n))
         IN  Double(Len(b) - 1, b \o Zeros(MantBits - Len(b)))

\* n further quotient bits of r / d (r < d), then the remainder.
RECURSIVE DivBits(_, _, _)
DivBits(r, d, n) ==
    IF n = 0 THEN [bits |-> <<>>, rem |-> r]
    ELSE LET bit  == IF 2 * r >= d THEN 1 ELSE 0
             rest == DivBits(2 * r - bit * d, d, n - 1)
         IN  [bits |-> <<bit>> \o rest.bits, rem |-> rest.rem]

\* The least k with n * 2^k >= d.
RECURSIVE ShiftTo(_, _)
ShiftTo(n, d) == IF n >= d THEN 0 ELSE 1 + ShiftTo(2 * n, d)

\* volume / 100 for an integer 0 <= volume.
Div100(n) ==
    IF n = 0 THEN DZero
    ELSE LET k    == ShiftTo(n, 100)
             top  == (n * Pow2(k)) \div 100
             lead == Reverse(NatBits(top))
             q    == DivBits((n * Pow2(k)) % 100, 100, MantBits + 1 - Len(lead))
             all  == lead \o q.bits
         IN  RoundEven(Len(lead) - 1 - k, SubSeq(all, 1, MantBits),
                       all[MantBits + 1], q.rem # 0)

\* a + b on least-significant-first bit strings, with carry c.
RECURSIVE AddBits(_, _, _)
AddBits(a, b, c) ==
    IF a = <<>> /\ b = <<>> THEN (IF c = 1 THEN <<1>> ELSE <<>>)
    ELSE LET x == IF a = <<>> THEN 0 ELSE Head(a)
             y == IF b = <<>> THEN 0 ELSE Head(b)
             s == x + y + c
         IN  <<s % 2>> \o AddBits(IF a = <<>> THEN <<>> ELSE Tail(a),
                                  IF b = <<>> THEN <<>> ELSE Tail(b),
                                  s \div 2)

\* x * 100 for a double x >= 0: 100 m = (m << 6) + (m << 5) + (m << 2).
Mul100(x) ==
    IF x = DZero THEN DZero
    ELSE LET m   == Reverse(Significand(x))
             p   == AddBits(AddBits(Zeros(6) \o m, Zeros(5) \o m, 0),
                            Zeros(2) \o m, 0)
             all == Reverse(p)
             L   == Len(all)
         IN  RoundEven(x.exp - (MantBits - 1) + (L - 1),
                       SubSeq(all, 1, MantBits), all[MantBits + 1],
                       \E k \in (MantBits + 2)..L : all[k] = 1)

(***************************************************************************)
(* The session.                                                            *)
(***************************************************************************)
Cycles == 1..MaxCycles

\* the absent queue head (queue.first() of an empty queue)
NoItem == 0
\* no resource: currentResource null, nothing in the player
NoRes == 0

\* volumes the commands pass to setVolume
Volumes == {-1, 7, 50, 101}

\* config.audioVolume: full volume
DefaultVolume == FromInt(1)

VARIABLES
    queue,            \* QueueManager: the guild's list of video ids
    appended,         \* how many ids have been appended (ids are 1, 2, ...)
    loop,             \* youtubeInterface.loop
    audioVolume,      \* this.audioVolume, a double
    currentResource,  \* this.currentResource: NoRes, or the cycle that made it
    resourceVolume,   \* the volume last applied to currentResource
    voiceConnection,  \* this.voiceConnection: absent, live or destroyed
    playerState,      \* this.audioPlayer.state.status
    playerResource,   \* the resource the player holds
    stateListeners,   \* cycles whose onIdleCallback listens to 'stateChange'
    errorListeners,   \* cycles whose once('error') listener is registered
    cycle,            \* per runner() call: its position, locals and outcome
    ret,              \* the value the last manual control returned
    notice,           \* the 'stateChange' <<old, new>> of the last step, or <<>>
    tornDown,         \* history: cycles whose download the connection's destruction overtook
    youtubePlayers,   \* globals.youtubePlayers: guild id -> session
    sessions,         \* the sessions constructed so far, each by its guild id
    lookups,          \* the <<guild id, session>> of the fromGuild calls so far
    playlistImportMaxSize, \* config.playlistImportMaxSize
    playlistSize,     \* how many items the playlist has at the API
    nextParams,       \* the params object the requests share
    accumulator,      \* the items accumulated so far
    requests,         \* the parameters of the list requests issued so far
    fetchPc,          \* where fetchVideos is
    videos            \* what the promise of fetchVideos resolved to

audio == <<queue, appended, loop, audioVolume, currentResource, resourceVolume,
           voiceConnection, playerState, playerResource, stateListeners,
           errorListeners, cycle, ret, notice, tornDown>>
registry == <<youtubePlayers, sessions, lookups>>
playlist == <<playlistImportMaxSize, playlistSize, nextParams, accumulator,
              requests, fetchPc, videos>>

vars == <<audio, registry, playlist>>

session == <<loop, audioVolume, currentResource, resourceVolume, voiceConnection>>
player == <<playerState, playerResource>>
listeners == <<stateListeners, errorListeners>>

NewCycle ==
    [pc |-> "idle", videoId |-> NoItem, res |-> "none", onIdle |-> "none",
     onError |-> "none", firedBy |-> "none", resolved |-> "pending", pops |-> 0,
     plays |-> 0]

Guilds == 1..MaxGuilds

\* no entry in globals.youtubePlayers
NoSession == 0
\* pageToken undefined: the first page
NoToken == 0

\* no fromGuild call yet: the registry is empty
InitRegistry ==
    /\ youtubePlayers = [g \in Guilds |-> NoSession]
    /\ sessions = <<>>
    /\ lookups = <<>>

\* fetchVideos not called yet, for a playlist of `size` items and an import
\* limit of `cap`
InitPlaylist(cap, size) ==
    /\ playlistImportMaxSize = cap
    /\ playlistSize = size
    /\ nextParams = [pageToken |-> NoToken, maxResults |-> 0]
    /\ accumulator = <<>>
    /\ requests = <<>>
    /\ fetchPc = "idle"
    /\ videos = [settled |-> FALSE, value |-> <<>>]

InitAudio ==
    /\ queue = <<>>
    /\ appended = 0
    /\ loop = FALSE
    /\ audioVolume = DefaultVolume
    /\ currentResource = NoRes
    /\ resourceVolume = DZero
    /\ voiceConnection = "absent"
    /\ playerState = "idle"
    /\ playerResource = NoRes
    /\ stateListeners = {}
    /\ errorListeners = {}
    /\ cycle = [c \in Cycles |-> NewCycle]
    /\ ret = "none"
    /\ notice = <<>>
    /\ tornDown = {}

Init == InitAudio /\ InitRegistry /\ InitPlaylist(MaxCap, 0)

\* QueueManager.deleteFirst: remove the head; nothing to remove when empty.
DeleteFirst(q) == IF q = <<>> THEN q ELSE Tail(q)

\* resolve(v) of the runner's promise: only the first call settles it.
Resolve(r, v) == IF r.resolved = "pending" THEN [r EXCEPT !.resolved = v] ELSE r

\* onIdleCallback without its test of the old state: any arrival at idle
\* counts as the end of the track.
IsFinishOnAnyIdle(old, new) == new = "idle"

\* The test of onIdleCallback.
IsFinish(old, new) == old = "playing" /\ new = "idle"

\* The cycles whose onIdleCallback acts on a 'stateChange' (old, new).
Fired(ls, old, new) == IF IsFinish(old, new) THEN ls ELSE {}

\* onIdleCallback up to its await: each fired callback has started its pop
\* (by: whether the event came from the player or from emitAudioFinish).
StartIdle(cy, fired, by) ==
    [c \in Cycles |-> IF c \in fired
                      THEN [cy[c] EXCEPT !.onIdle = "popping", !.firedBy = by]
                      ELSE cy[c]]

\* a command appends a video id to the queue
Enqueue ==
    /\ appended < MaxItems
    /\ appended' = appended + 1
    /\ queue' = Append(queue, appended + 1)
    /\ ret' = "none" /\ notice' = <<>>
    /\ UNCHANGED <<session, player, listeners, cycle>>
    /\ UNCHANGED <<tornDown, registry, playlist>>

\* runner() is called: the executor runs up to `await this.queue.first()`
Invoke(c) ==
    /\ cycle[c].pc = "idle"
    /\ \A b \in Cycles : b < c => cycle[b].pc # "idle"
    /\ cycle' = [cycle EXCEPT ![c].pc = "first"]
    /\ ret' = "none" /\ notice' = <<>>
    /\ UNCHANGED <<queue, appended, session, player, listeners>>
    /\ UNCHANGED <<tornDown, registry, playlist>>

\* queue.first() answers
FirstDone(c) ==
    /\ cycle[c].pc = "first"
    /\ cycle' = [cycle EXCEPT ![c].pc = "length",
                              ![c].videoId = IF queue = <<>> THEN NoItem
                                             ELSE Head(queue)]
    /\ ret' = "none" /\ notice' = <<>>
    /\ UNCHANGED <<queue, appended, session, player, listeners>>
    /\ UNCHANGED <<tornDown, registry, playlist>>

\* the early return testing the length alone
NothingQueuedByLength(videoId, queueLength) == queueLength = 0

\* `!videoId || !queueLength`
NothingQueued(videoId, queueLength) == videoId = NoItem \/ queueLength = 0

\* queue.length() answers; resolve(null) when there is nothing to play
LengthDone(c) ==
    /\ cycle[c].pc = "length"
    /\ cycle' = [cycle EXCEPT ![c] =
            IF NothingQueued(@.videoId, Len(queue))
            THEN [Resolve(@, "empty") EXCEPT !.pc = "done"]
            ELSE [@ EXCEPT !.pc = "download"]]
    /\ ret' = "none" /\ notice' = <<>>
    /\ UNCHANGED <<queue, appended, session, player, listeners>>
    /\ UNCHANGED <<tornDown, registry, playlist>>

\* player.play(resource): the player takes the resource and starts buffering
\* it; its 'stateChange' reaches the listeners registered at that moment.
Play(c, ls, cy) ==
    /\ playerResource' = c
    /\ playerState' = "buffering"
    /\ stateListeners' = ls \ Fired(ls, playerState, "buffering")
    /\ cycle' = StartIdle(cy, Fired(ls, playerState, "buffering"), "player")
    /\ notice' = <<playerState, "buffering">>

\* youtubeVideo.download() threw: the catch block logs and starts its pop
DownloadThrew(c) ==
    /\ cycle' = [cycle EXCEPT ![c].pc = "popCatch", ![c].res = "throw"]
    /\ notice' = <<>>
    /\ UNCHANGED <<session, player, listeners>>

\* the no-resource branch without its removeListener
DownloadEmptyKeepsListener(c) ==
    /\ cycle' = [cycle EXCEPT ![c].pc = "popNull", ![c].res = "null"]
    /\ stateListeners' = stateListeners \cup {c}
    /\ notice' = <<>>
    /\ UNCHANGED <<session, player, errorListeners>>

\* download() gave no resource: the callback is registered and removed
\* again, and the pop is started
DownloadEmpty(c) ==
    /\ cycle' = [cycle EXCEPT ![c].pc = "popNull", ![c].res = "null"]
    /\ stateListeners' = (stateListeners \cup {c}) \ {c}
    /\ notice' = <<>>
    /\ UNCHANGED <<session, player, errorListeners>>

\* download() gave a resource: register onIdleCallback, set currentResource,
\* apply the volume, play, register the error listener
DownloadOk(c) ==
    /\ currentResource' = c
    /\ resourceVolume' = audioVolume
    /\ Play(c, stateListeners \cup {c},
            [cycle EXCEPT ![c].pc = "armed", ![c].res = "ok", ![c].plays = @ + 1])
    /\ errorListeners' = errorListeners \cup {c}
    /\ UNCHANGED <<loop, audioVolume, voiceConnection>>

\* youtubeVideo.download() answers
DownloadDone(c) ==
    /\ cycle[c].pc = "download"
    /\ \/ DownloadThrew(c)
       \/ DownloadEmpty(c)
       \/ DownloadOk(c)
    /\ ret' = "none"
    /\ UNCHANGED <<queue, appended>>
    /\ tornDown' = tornDown \ {c}
    /\ UNCHANGED <<registry, playlist>>

\* the deleteFirst() of the no-resource branch answers: resolve(true)
PopNullDone(c) ==
    /\ cycle[c].pc = "popNull"
    /\ queue' = DeleteFirst(queue)
    /\ cycle' = [cycle EXCEPT ![c] =
            [Resolve(@, "advanced") EXCEPT !.pc = "done", !.pops = @ + 1]]
    /\ ret' = "none" /\ notice' = <<>>
    /\ UNCHANGED <<appended, session, player, listeners>>
    /\ UNCHANGED <<tornDown, registry, playlist>>

\* the deleteFirst() of the catch block answers: resolve(true)
PopCatchDone(c) ==
    /\ cycle[c].pc = "popCatch"
    /\ queue' = DeleteFirst(queue)
    /\ cycle' = [cycle EXCEPT ![c] =
            [Resolve(@, "advanced") EXCEPT !.pc = "done", !.pops = @ + 1]]
    /\ ret' = "none" /\ notice' = <<>>
    /\ UNCHANGED <<appended, session, player, listeners>>
    /\ UNCHANGED <<tornDown, registry, playlist>>

\* the deleteFirst() of onIdleCallback answers: resolve(true)
IdlePopDone(c) ==
    /\ cycle[c].onIdle = "popping"
    /\ queue' = DeleteFirst(queue)
    /\ cycle' = [cycle EXCEPT ![c] =
            [Resolve(@, "advanced") EXCEPT !.onIdle = "done", !.pops = @ + 1]]
    /\ ret' = "none" /\ notice' = <<>>
    /\ UNCHANGED <<appended, session, player, listeners>>
    /\ UNCHANGED <<tornDown, registry, playlist>>

\* the deleteFirst() of the error listener answers: onIdleCallback is
\* removed, resolve(true)
ErrorPopDone(c) ==
    /\ cycle[c].onError = "popping"
    /\ queue' = DeleteFirst(queue)
    /\ stateListeners' = stateListeners \ {c}
    /\ cycle' = [cycle EXCEPT ![c] =
            [Resolve(@, "advanced") EXCEPT !.onError = "done", !.pops = @ + 1]]
    /\ ret' = "none" /\ notice' = <<>>
    /\ UNCHANGED <<appended, session, player, errorListeners>>
    /\ UNCHANGED <<tornDown, registry, playlist>>

\* the transitions the player makes by itself or on pause and stop
PlayerMoves ==
    {<<"buffering", "playing">>, <<"playing", "paused">>, <<"playing", "idle">>,
     <<"buffering", "idle">>, <<"paused", "idle">>}

\* the player changes state and emits 'stateChange' (old, new)
StateChange(old, new) ==
    /\ playerState = old
    /\ playerState' = new
    /\ playerResource' = IF new = "idle" THEN NoRes ELSE playerResource
    /\ stateListeners' = stateListeners \ Fired(stateListeners, old, new)
    /\ cycle' = StartIdle(cycle, Fired(stateListeners, old, new), "player")
    /\ ret' = "none" /\ notice' = <<old, new>>
    /\ UNCHANGED <<queue, appended, session, errorListeners>>
    /\ UNCHANGED <<tornDown, registry, playlist>>

\* the player reports a stream error: every once('error') listener is
\* removed and run up to its await
PlayerError ==
    /\ playerResource # NoRes
    /\ errorListeners # {}
    /\ errorListeners' = {}
    /\ cycle' = [c \in Cycles |->
            IF c \in errorListeners THEN [cycle[c] EXCEPT !.onError = "popping"]
            ELSE cycle[c]]
    /\ ret' = "none" /\ notice' = <<>>
    /\ UNCHANGED <<queue, appended, session, player, stateListeners>>
    /\ UNCHANGED <<tornDown, registry, playlist>>

\* Resume.runner: player.unpause() resumes a paused player
Unpause ==
    /\ playerState = "paused"
    /\ playerState' = "playing"
    /\ stateListeners' = stateListeners \ Fired(stateListeners, "paused", "playing")
    /\ cycle' = StartIdle(cycle, Fired(stateListeners, "paused", "playing"), "player")
    /\ ret' = "none" /\ notice' = <<"paused", "playing">>
    /\ UNCHANGED <<queue, appended, session, playerResource, errorListeners>>
    /\ UNCHANGED <<tornDown, registry, playlist>>

\* Loop.runner: youtubeInterface.loop = looped
SetLoop(looped) ==
    /\ loop' = looped
    /\ ret' = "none" /\ notice' = <<>>
    /\ UNCHANGED <<queue, appended, audioVolume, currentResource, resourceVolume,
                   voiceConnection, player, listeners, cycle>>
    /\ UNCHANGED <<tornDown, registry, playlist>>

\* emitAudioFinish (skip): with a current resource, emit the 'stateChange'
\* playing -> idle of a finished track and return true; else return null
emitAudioFinish ==
    /\ IF currentResource # NoRes
       THEN /\ stateListeners' = stateListeners \ Fired(stateListeners, "playing", "idle")
            /\ cycle' = StartIdle(cycle, Fired(stateListeners, "playing", "idle"), "skip")
            /\ ret' = "true" /\ notice' = <<"playing", "idle">>
       ELSE /\ ret' = "null" /\ notice' = <<>>
            /\ UNCHANGED <<stateListeners, cycle>>
    /\ UNCHANGED <<queue, appended, session, player, errorListeners>>
    /\ UNCHANGED <<tornDown, registry, playlist>>

\* `volume < 0 || volume > 100`
OutOfRange(volume) == volume < 0 \/ volume > 100

\* volume / 100 of the volumes in range, computed once
Fraction == [v \in {w \in Volumes : ~OutOfRange(w)} |-> Div100(v)]

\* setVolume that stores the volume without applying it to the current
\* resource
setVolumeStoredOnly(volume) ==
    /\ IF OutOfRange(volume)
       THEN /\ ret' = "false"
            /\ UNCHANGED audioVolume
       ELSE /\ audioVolume' = Fraction[volume]
            /\ ret' = "true"
    /\ notice' = <<>>
    /\ UNCHANGED <<queue, appended, loop, currentResource, resourceVolume,
                   voiceConnection, player, listeners, cycle>>
    /\ UNCHANGED <<tornDown, registry, playlist>>

\* setVolume(volume)
setVolume(volume) ==
    /\ IF OutOfRange(volume)
       THEN /\ ret' = "false"
            /\ UNCHANGED <<audioVolume, resourceVolume>>
       ELSE /\ audioVolume' = Fraction[volume]
            /\ resourceVolume' = IF currentResource # NoRes THEN Fraction[volume]
                                 ELSE resourceVolume
            /\ ret' = "true"
    /\ notice' = <<>>
    /\ UNCHANGED <<queue, appended, loop, currentResource, voiceConnection,
                   player, listeners, cycle>>
    /\ UNCHANGED <<tornDown, registry, playlist>>

\* the doubles audioVolume can hold
StoredVolumes == {DefaultVolume} \cup {Fraction[v] : v \in DOMAIN Fraction}

\* audioVolume * 100 of the doubles audioVolume can hold, computed once
Percent == [x \in StoredVolumes |-> Mul100(x)]

\* get volume()
volume == Percent[audioVolume]

\* setConnection(connection): a fresh connection is stored and subscribed
setConnection ==
    /\ voiceConnection' = "live"
    /\ ret' = "none" /\ notice' = <<>>
    /\ UNCHANGED <<queue, appended, loop, audioVolume, currentResource,
                   resourceVolume, player, listeners, cycle>>
    /\ UNCHANGED <<tornDown, registry, playlist>>

\* deleteConnection(): forget the resource; disconnect and destroy a
\* connection that is there and not destroyed yet
deleteConnection ==
    /\ currentResource' = NoRes
    /\ resourceVolume' = DZero
    /\ IF voiceConnection = "live"
       THEN voiceConnection' = "destroyed" /\ ret' = "true"
       ELSE voiceConnection' = voiceConnection /\ ret' = "null"
    /\ notice' = <<>>
    /\ UNCHANGED <<queue, appended, loop, audioVolume, player, listeners, cycle>>
    /\ tornDown' = IF voiceConnection = "live"
                   THEN tornDown \cup {c \in Cycles : cycle[c].pc = "download"}
                   ELSE tornDown
    /\ UNCHANGED <<registry, playlist>>

Runner(c) ==
    \/ Invoke(c)
    \/ FirstDone(c)
    \/ LengthDone(c)
    \/ DownloadDone(c)
    \/ PopNullDone(c)
    \/ PopCatchDone(c)
    \/ IdlePopDone(c)
    \/ ErrorPopDone(c)

\* the playback core: the queue, the runner, the player and skip
Next ==
    \/ Enqueue
    \/ \E c \in Cycles : Runner(c)
    \/ \E m \in PlayerMoves : StateChange(m[1], m[2])
    \/ PlayerError
    \/ Unpause
    \/ emitAudioFinish

\* the other manual controls
Controls ==
    \/ \E b \in BOOLEAN : SetLoop(b)
    \/ \E v \in Volumes : setVolume(v)
    \/ setConnection
    \/ deleteConnection

NextControls == Next \/ Controls

Spec == Init /\ [][Next]_vars

\* the playback core under all the manual controls
SpecControls == Init /\ [][NextControls]_vars

(***************************************************************************)
(* Exceptions of the collaborators: a queue call that rejects and a        *)
(* player.play that throws.  In the body of the executor they reach the    *)
(* catch block; in a listener, and in the catch block itself, nothing      *)
(* catches them and the code after the await never runs.                   *)
(***************************************************************************)
\* queue.first() or queue.length() rejects: the catch block starts its pop
ReadRaises(c) ==
    /\ cycle[c].pc \in {"first", "length"}
    /\ cycle' = [cycle EXCEPT ![c].pc = "popCatch"]
    /\ ret' = "none" /\ notice' = <<>>
    /\ UNCHANGED <<queue, appended, session, player, listeners>>
    /\ UNCHANGED <<tornDown, registry, playlist>>

\* download() gave a resource and player.play throws: the callback stays
\* registered, currentResource stays set, the catch block starts its pop
PlayRaises(c) ==
    /\ cycle[c].pc = "download"
    /\ stateListeners' = stateListeners \cup {c}
    /\ currentResource' = c
    /\ resourceVolume' = audioVolume
    /\ cycle' = [cycle EXCEPT ![c].pc = "popCatch", ![c].res = "ok",
                              ![c].plays = @ + 1]
    /\ ret' = "none" /\ notice' = <<>>
    /\ UNCHANGED <<queue, appended, loop, audioVolume, voiceConnection, player,
                   errorListeners>>
    /\ tornDown' = tornDown \ {c}
    /\ UNCHANGED <<registry, playlist>>

\* the deleteFirst() of the no-resource branch rejects: the catch block
\* starts its own
PopNullRaises(c) ==
    /\ cycle[c].pc = "popNull"
    /\ cycle' = [cycle EXCEPT ![c].pc = "popCatch"]
    /\ ret' = "none" /\ notice' = <<>>
    /\ UNCHANGED <<queue, appended, session, player, listeners>>
    /\ UNCHANGED <<tornDown, registry, playlist>>

\* the deleteFirst() of the catch block rejects: the executor ends there
PopCatchRaises(c) ==
    /\ cycle[c].pc = "popCatch"
    /\ cycle' = [cycle EXCEPT ![c].pc = "threw"]
    /\ ret' = "none" /\ notice' = <<>>
    /\ UNCHANGED <<queue, appended, session, player, listeners>>
    /\ UNCHANGED <<tornDown, registry, playlist>>

\* the deleteFirst() of onIdleCallback rejects: the callback ends there
IdlePopRaises(c) ==
    /\ cycle[c].onIdle = "popping"
    /\ cycle' = [cycle EXCEPT ![c].onIdle = "threw"]
    /\ ret' = "none" /\ notice' = <<>>
    /\ UNCHANGED <<queue, appended, session, player, listeners>>
    /\ UNCHANGED <<tornDown, registry, playlist>>

\* the deleteFirst() of the error listener rejects: the listener ends there
ErrorPopRaises(c) ==
    /\ cycle[c].onError = "popping"
    /\ cycle' = [cycle EXCEPT ![c].onError = "threw"]
    /\ ret' = "none" /\ notice' = <<>>
    /\ UNCHANGED <<queue, appended, session, player, listeners>>
    /\ UNCHANGED <<tornDown, registry, playlist>>

Raises(c) ==
    \/ ReadRaises(c)
    \/ PlayRaises(c)
    \/ PopNullRaises(c)
    \/ PopCatchRaises(c)
    \/ IdlePopRaises(c)
    \/ ErrorPopRaises(c)

NextRaising == Next \/ \E c \in Cycles : Raises(c)

\* the playback core with collaborators that may raise
SpecRaising == Init /\ [][NextRaising]_vars

(***************************************************************************)
(* The claims.                                                             *)
(***************************************************************************)
Invoked(c) == cycle[c].pc # "idle"

\* C1: runner() calls of one session that overlap never both pop for the
\* same queue head: once a cycle has popped for the head it read, no other
\* cycle that read the same head removes an item.
C1_OnePopPerHead ==
    [][\A a, b \in Cycles :
          (a # b /\ cycle[a].videoId # NoItem
                /\ cycle[a].videoId = cycle[b].videoId /\ cycle[a].pops > 0)
              => ~(cycle'[b].pops > cycle[b].pops /\ queue' # queue)]_vars

\* A cycle that has not resolved and that nothing can resolve any more: no
\* answer is awaited and none of its listeners is registered.
Stuck(c) ==
    /\ Invoked(c)
    /\ cycle[c].resolved = "pending"
    /\ cycle[c].pc \in {"armed", "done", "threw"}
    /\ cycle[c].onIdle # "popping"
    /\ cycle[c].onError # "popping"
    /\ c \notin stateListeners
    /\ c \notin errorListeners

\* C2: whatever a collaborator raises during a cycle, the cycle still
\* resolves: no cycle is ever left unresolved with nothing that can
\* resolve it.
C2_EveryCycleResolves == \A c \in Cycles : ~Stuck(c)

\* C3: once the player has reported an error to a cycle whose completion
\* callback has not fired, no 'stateChange' of the player fires that
\* callback (no second pop), not even while the error listener's pop is
\* still in progress.
C3_ErrorDisarmsCompletion ==
    [][\A c \in Cycles :
          (cycle[c].onError # "none" /\ cycle[c].onIdle = "none")
              => ~(cycle'[c].onIdle = "popping" /\ cycle'[c].firedBy = "player")]_vars

\* C4: a cycle whose download threw or gave no resource never plays and
\* never sets currentResource, leaves no listener registered, pops exactly
\* once and resolves `advanced`.
C4_NoResourceAdvances ==
    \A c \in Cycles :
        cycle[c].res \in {"null", "throw"} =>
            /\ cycle[c].plays = 0
            /\ currentResource # c
            /\ playerResource # c
            /\ c \notin stateListeners
            /\ c \notin errorListeners
            /\ cycle[c].onIdle = "none"
            /\ cycle[c].onError = "none"
            /\ IF cycle[c].pc = "done"
               THEN cycle[c].resolved = "advanced" /\ cycle[c].pops = 1
               ELSE /\ cycle[c].pc \in {"popNull", "popCatch"}
                    /\ cycle[c].resolved = "pending"
                    /\ cycle[c].pops = 0

\* both ways of having no resource have completed a cycle
C4_Witness ==
    /\ cycle[1].res = "null" /\ cycle[1].pc = "done" /\ cycle[1].pops = 1
    /\ cycle[2].res = "throw" /\ cycle[2].pc = "done" /\ cycle[2].pops = 1

\* C5: a pop of a cycle requeues the head at the tail when loop is set
\* (the length is unchanged) and discards it otherwise (the length drops by
\* one); setting the flag changes neither the queue nor the player.
C5_LoopRequeuesHead ==
    [][/\ \A c \in Cycles :
            (cycle'[c].pops = cycle[c].pops + 1 /\ queue # <<>>)
                => queue' = IF loop THEN Tail(queue) \o <<Head(queue)>>
                            ELSE Tail(queue)
       /\ loop' # loop => UNCHANGED <<queue, player>>]_vars

\* C6: after emitAudioFinish has fired the completion callback of a cycle,
\* no later error of the skipped track, still held by the player, starts
\* another pop for that cycle.
C6_SkipPopsOnce ==
    [][\A c \in Cycles :
          (cycle[c].firedBy = "skip" /\ cycle[c].onError = "none"
                /\ playerResource = c)
              => cycle'[c].onError = "none"]_vars

\* Nothing is loaded: no current resource, or the player holds nothing and
\* every cycle that played has resolved.
NothingLoaded ==
    \/ currentResource = NoRes
    \/ /\ playerResource = NoRes
       /\ \A c \in Cycles : cycle[c].plays > 0 => cycle[c].resolved # "pending"

\* C7: emitAudioFinish with nothing loaded returns null, emits no
\* 'stateChange' and removes nothing from the queue.
C7_SkipOfNothing ==
    [][(NothingLoaded /\ emitAudioFinish)
          => (ret' = "null" /\ notice' = <<>> /\ queue' = queue)]_vars

\* C8: a completion callback fires only on the 'stateChange' playing ->
\* idle; on that event every registered callback deregisters itself and
\* starts one pop; any other 'stateChange' leaves the registered callbacks,
\* their cycles' outcome and the queue alone; a callback that has fired is
\* never registered again, and when its pop answers the head is removed
\* once and the cycle is resolved `advanced`.
C8_FiresOnFinishOnly ==
    [][\A c \in Cycles :
          /\ (cycle[c].onIdle = "none" /\ cycle'[c].onIdle # "none")
                => /\ notice' = <<"playing", "idle">>
                   /\ cycle[c].res = "ok"
                   /\ c \in stateListeners
          /\ (c \in stateListeners /\ notice' = <<"playing", "idle">>)
                => /\ c \notin stateListeners'
                   /\ cycle'[c].onIdle = "popping"
                   /\ cycle'[c].pops = cycle[c].pops
          /\ (c \in stateListeners /\ notice' \notin {<<>>, <<"playing", "idle">>})
                => /\ c \in stateListeners'
                   /\ cycle'[c] = cycle[c]
                   /\ queue' = queue
          /\ cycle'[c].onIdle # "none" => c \notin stateListeners'
          /\ (cycle[c].onIdle = "popping" /\ cycle'[c].onIdle # "popping")
                => /\ cycle'[c].onIdle = "done"
                   /\ queue' = DeleteFirst(queue)
                   /\ cycle'[c].pops = cycle[c].pops + 1
                   /\ cycle'[c].resolved = "advanced"]_vars

\* a first cycle has advanced through its completion callback, and a second
\* one is armed and has just sat through buffering -> playing
C8_Witness ==
    /\ cycle[1].onIdle = "done" /\ cycle[1].firedBy = "player"
    /\ cycle[1].resolved = "advanced" /\ cycle[1].pops = 1
    /\ 2 \in stateListeners /\ cycle[2].onIdle = "none"
    /\ notice = <<"buffering", "playing">>

\* C9: a cycle that read an empty queue resolves `empty` and touches
\* nothing: no download, no play, no listener, no pop, and its steps leave
\* the queue, currentResource, the player and the listeners as they were.
C9_EmptyTouchesNothing ==
    [][\A c \in Cycles :
          (cycle'[c].pc \notin {"idle", "first"} /\ cycle'[c].videoId = NoItem)
              => /\ cycle'[c].pc \in {"length", "done"}
                 /\ cycle'[c].pc = "done" => cycle'[c].resolved = "empty"
                 /\ cycle'[c].pc = "length" => cycle'[c].resolved = "pending"
                 /\ cycle'[c].res = "none"
                 /\ cycle'[c].plays = 0
                 /\ cycle'[c].pops = 0
                 /\ cycle'[c].onIdle = "none"
                 /\ cycle'[c].onError = "none"
                 /\ c \notin stateListeners' \cup errorListeners'
                 /\ currentResource' # c
                 /\ playerResource' # c
                 /\ cycle'[c] # cycle[c]
                       => UNCHANGED <<queue, currentResource, resourceVolume,
                                      player, listeners>>]_vars

\* a cycle found the queue empty and resolved `empty` although an item was
\* appended while it ran
C9_Witness ==
    \E c \in Cycles :
        /\ cycle[c].pc = "done" /\ cycle[c].videoId = NoItem
        /\ cycle[c].resolved = "empty"
        /\ queue # <<>>

\* C10: setVolume(v) out of [0, 100] returns false and leaves the session's
\* and the resource's volume alone; in range it returns true, the volume
\* getter then reads v, and a current resource gets the new volume.
C10_SetVolume ==
    [][\A v \in Volumes :
          setVolume(v)
              => IF v < 0 \/ v > 100
                 THEN ret' = "false" /\ UNCHANGED <<audioVolume, resourceVolume>>
                 ELSE /\ ret' = "true"
                      /\ volume' = FromInt(v)
                      /\ currentResource # NoRes => resourceVolume' = audioVolume']_vars

\* C11: deleteConnection() with the connection absent or already destroyed
\* is a no-op: it returns null and leaves the connection, currentResource,
\* the queue and the volume as they were; with a live connection it destroys
\* it, clears currentResource and returns true.
C11_DestroyIsIdempotent ==
    [][deleteConnection
          => IF voiceConnection # "live"
             THEN /\ ret' = "null"
                  /\ UNCHANGED <<voiceConnection, currentResource, queue, audioVolume>>
             ELSE /\ voiceConnection' = "destroyed"
                  /\ currentResource' = NoRes
                  /\ ret' = "true"]_vars

(***************************************************************************)
(* The registry of sessions: globals.youtubePlayers and fromGuild.          *)
(* fromGuild is a synchronous function without an await: a call runs from  *)
(* its test of has() to its get() with no other code in between, so each   *)
(* call is one step.                                                       *)
(***************************************************************************)
\* `globals.youtubePlayers.has(guild.id)`
Has(guildId) == youtubePlayers[guildId] # NoSession

\* fromGuild without its test of has(): construct and set on every call
fromGuildAnew(guildId) ==
    /\ Len(lookups) < MaxLookups
    /\ sessions' = Append(sessions, guildId)
    /\ youtubePlayers' = [youtubePlayers EXCEPT ![guildId] = Len(sessions) + 1]
    /\ lookups' = Append(lookups, <<guildId, youtubePlayers'[guildId]>>)
    /\ UNCHANGED <<audio, playlist>>

\* fromGuild(guild): construct and set a session if the guild has none,
\* return the guild's entry
fromGuild(guildId) ==
    /\ Len(lookups) < MaxLookups
    /\ IF ~Has(guildId)
       THEN /\ sessions' = Append(sessions, guildId)
            /\ youtubePlayers' = [youtubePlayers EXCEPT ![guildId] = Len(sessions) + 1]
       ELSE UNCHANGED <<sessions, youtubePlayers>>
    /\ lookups' = Append(lookups, <<guildId, youtubePlayers'[guildId]>>)
    /\ UNCHANGED <<audio, playlist>>

NextRegistry == \E g \in Guilds : fromGuild(g)

\* any sequence of fromGuild calls over the guilds
SpecRegistry == Init /\ [][NextRegistry]_vars

\* C12: over any sequence of fromGuild calls, no guild has two sessions
\* constructed for it, every call returns a session of its guild, two calls
\* return the same session exactly when they name the same guild, and an
\* entry of the registry is never replaced or removed.
C12_OneSessionPerGuild ==
    [][/\ \A i, j \in 1..Len(sessions') : sessions'[i] = sessions'[j] => i = j
       /\ \A k \in 1..Len(lookups') :
              /\ lookups'[k][2] \in 1..Len(sessions')
              /\ sessions'[lookups'[k][2]] = lookups'[k][1]
       /\ \A k, l \in 1..Len(lookups') :
              lookups'[k][1] = lookups'[l][1] <=> lookups'[k][2] = lookups'[l][2]
       /\ \A g \in Guilds : Has(g) => youtubePlayers'[g] = youtubePlayers[g]]_vars

\* a guild was looked up, then another one, then the first again
C12_Witness ==
    /\ Len(lookups) >= 3
    /\ lookups[1][1] = lookups[3][1]
    /\ lookups[2][1] # lookups[1][1]
    /\ lookups[1][2] = lookups[3][2]
    /\ Len(sessions) = 2

(***************************************************************************)
(* The import of a playlist: YouTubePlaylist.fetchVideos and its recursive *)
(* videoAccumulator, against an API that serves the playlist's items       *)
(* 1..playlistSize in pages.  A page token is the number of items served   *)
(* before the page.                                                        *)
(***************************************************************************)
Min(a, b) == IF a < b THEN a ELSE b

\* playlistItems.list(params) of the API: at most maxResults items and at
\* most one page of them, from the token on, and the token of the rest
List(params) ==
    LET count == Min(Min(params.maxResults, PageSize),
                     playlistSize - params.pageToken)
        last  == params.pageToken + count
    IN  [items |-> [k \in 1..count |-> params.pageToken + k],
         nextPageToken |-> IF last < playlistSize THEN last ELSE NoToken]

\* fetchVideos(): the first params, and the first call of videoAccumulator
\* up to its await of the list request
fetchVideos ==
    /\ fetchPc = "idle"
    /\ nextParams' = [pageToken |-> NoToken, maxResults |-> playlistImportMaxSize]
    /\ accumulator' = <<>>
    /\ requests' = <<nextParams'>>
    /\ fetchPc' = "listing"
    /\ UNCHANGED <<playlistImportMaxSize, playlistSize, videos, audio, registry>>

\* fetchVideos() of a url without a valid list id: `this.id` throws, the
\* catch block logs and returns []
fetchVideosThrew ==
    /\ fetchPc = "idle"
    /\ videos' = [settled |-> TRUE, value |-> <<>>]
    /\ fetchPc' = "caught"
    /\ UNCHANGED <<playlistImportMaxSize, playlistSize, nextParams, accumulator,
                   requests, audio, registry>>

\* the list request answers with items: set the token and maxResults of the
\* next params, concat, and either call videoAccumulator again (up to its
\* await) or resolve with what is accumulated
videoAccumulator ==
    /\ fetchPc = "listing"
    /\ LET response    == List(nextParams)
           params      == [pageToken |-> response.nextPageToken,
                           maxResults |-> playlistImportMaxSize - Len(accumulator)]
           accumulated == accumulator \o response.items
       IN  /\ nextParams' = params
           /\ accumulator' = accumulated
           /\ IF params.pageToken # NoToken /\ params.maxResults > 0
              THEN /\ requests' = Append(requests, params)
                   /\ UNCHANGED <<fetchPc, videos>>
              ELSE /\ videos' = [settled |-> TRUE, value |-> accumulated]
                   /\ fetchPc' = "done"
                   /\ UNCHANGED requests
    /\ UNCHANGED <<playlistImportMaxSize, playlistSize, audio, registry>>

\* the list request answers without items: resolve with the accumulator
videoAccumulatorNoItems ==
    /\ fetchPc = "listing"
    /\ videos' = [settled |-> TRUE, value |-> accumulator]
    /\ fetchPc' = "bare"
    /\ UNCHANGED <<playlistImportMaxSize, playlistSize, nextParams, accumulator,
                   requests, audio, registry>>

\* the list request rejects: videoAccumulator, an async function nobody
\* awaits, rejects at its await and the resolver is never called
videoAccumulatorRaises ==
    /\ fetchPc = "listing"
    /\ fetchPc' = "rejected"
    /\ UNCHANGED <<playlistImportMaxSize, playlistSize, nextParams, accumulator,
                   requests, videos, audio, registry>>

NextPlaylist ==
    \/ fetchVideos
    \/ fetchVideosThrew
    \/ videoAccumulator
    \/ videoAccumulatorNoItems
    \/ videoAccumulatorRaises

\* one fetchVideos call, for every playlist size and import limit
InitFetch ==
    /\ InitAudio
    /\ InitRegistry
    /\ \E cap \in 1..MaxCap, size \in 0..MaxSize : InitPlaylist(cap, size)

SpecPlaylist == InitFetch /\ [][NextPlaylist]_vars

\* C13: when every list request was answered with its page, fetchVideos
\* resolves with exactly the first min(playlistSize, playlistImportMaxSize)
\* items, in the order of the API.
C13_FirstItemsUpToCap ==
    fetchPc = "done"
        => /\ videos.settled
           /\ videos.value = [k \in 1..Min(playlistSize, playlistImportMaxSize) |-> k]

\* C14: when a list request has failed, fetchVideos has resolved with the
\* items accumulated from the requests before it.
C14_PartialOnError ==
    fetchPc = "rejected" => (videos.settled /\ videos.value = accumulator)

\* C18: every follow-up request carries the token of the response before it
\* and asks for exactly the remaining capacity, playlistImportMaxSize less
\* the items accumulated with that response, and that capacity is positive.
C18_AsksForRemainder ==
    [][(requests # <<>> /\ Len(requests') = Len(requests) + 1)
          => LET request == requests'[Len(requests')]
             IN  /\ request.pageToken # NoToken
                 /\ request.pageToken = List(nextParams).nextPageToken
                 /\ request.maxResults = playlistImportMaxSize - Len(accumulator')
                 /\ request.maxResults > 0]_vars

\* C15: a 'stateChange' playing -> idle emitted while the download of a
\* cycle is in flight, every earlier cycle having resolved for another
\* head, is observed by that cycle's completion callback, which is
\* registered by then: the callback starts its pop.
C15_WatcherBeforeResolution ==
    [][\A c \in Cycles :
          (/\ cycle[c].pc = "download"
           /\ \A b \in Cycles \ {c} :
                  Invoked(b) => /\ cycle[b].resolved # "pending"
                                /\ cycle[b].videoId # cycle[c].videoId
           /\ notice' = <<"playing", "idle">>)
              => cycle'[c].onIdle = "popping"]_vars

\* C16: currentResource is set only while the cycle that loaded it has not
\* resolved: once that cycle has resolved (completion, skip or error),
\* currentResource is null again.
C16_ResourceOnlyWhileLoaded ==
    currentResource # NoRes => cycle[currentResource].resolved = "pending"

\* C17: a cycle whose download was in flight when deleteConnection()
\* destroyed the connection does not act on the download's result while the
\* connection is destroyed: it does not set currentResource and does not
\* play.
C17_NoPlayAfterTeardown ==
    [][\A c \in Cycles :
          (c \in tornDown /\ cycle[c].pc = "download" /\ voiceConnection = "destroyed")
              => /\ cycle'[c].plays = cycle[c].plays
                 /\ currentResource' # c
                 /\ playerResource' # c]_vars

\* C19: a cycle that has resolved has neither its completion callback nor
\* its error listener registered on the player any more.
C19_NoListenerAfterResolve ==
    \A c \in Cycles :
        cycle[c].resolved # "pending" => c \notin stateListeners \cup errorListeners

\* a double in [0, 1]
InUnit(x) == x = DZero \/ x.exp < 0 \/ x = FromInt(1)

\* C20: whenever a resource is current, the volume applied to it is the
\* session's stored volume, a fraction in [0, 1], whatever setVolume calls,
\* accepted or rejected, and loads of new resources came before.
C20_ResourceHasSessionVolume ==
    /\ InUnit(audioVolume)
    /\ currentResource # NoRes => resourceVolume = audioVolume

\* a second resource is current at a volume set by setVolume(7), and a
\* setVolume out of range has just been rejected
C20_Witness ==
    /\ currentResource = 2
    /\ cycle[1].plays = 1
    /\ audioVolume = Fraction[7]
    /\ resourceVolume = Fraction[7]
    /\ ret = "false"

=============================================================================
